---- MODULE Spec2Model ----
(***************************************************************************)
(* Model of the LiteLLM proxy service of crawlplexity                      *)
(* (src/lib/litellm-service/app.py): the model registry, the fuzzy model   *)
(* id resolver, model selection and the fallback execution loop.           *)
(*                                                                         *)
(* Model ids are sequences of one-character strings, so that the string    *)
(* functions of the resolver (split, lower, strip, substring, character    *)
(* sets) are computed as the code computes them.  Similarity scores are    *)
(* Python floats in the code; here they are exact rationals <<num, den>>.  *)
(* For every base similarity p/q with q <= 64 the IEEE double result of    *)
(* the code's expressions takes the same side of the 0.8 and 0.7           *)
(* comparisons as the exact rational, so the accept/reject decisions are   *)
(* the code's.  Floats can order two candidates whose exact scores tie     *)
(* (0.7*0.7+0.3 against 1.0*0.7+0.09); nothing below depends on which of   *)
(* two tied candidates wins.                                               *)
(***************************************************************************)
EXTENDS Integers, Sequences, FiniteSets, TLC

VARIABLES
    AVAILABLE_MODELS,       \* the registry list (module global)
    store,                  \* Redis: the dynamic_model:* entries, in KEYS order
    request,                \* the ChatRequest being handled
    max_retries,            \* argument of try_with_fallback
    pc,                     \* position of the request handler
    dynamic_models,         \* local of refresh_models_from_redis (request thread)
    static_models,          \* local of refresh_models_from_redis (request thread)
    available_model_names,  \* local of select_optimal_model
    fuzzy_match,            \* local of select_optimal_model
    suitable_models,        \* local of select_optimal_model
    selected_model,         \* local of try_with_fallback
    attempt,                \* loop variable of try_with_fallback
    events,                 \* history: one record per provider call
    reads,                  \* history: registry lists read by the current selection
    bg,                     \* background_model_refresh thread: pc and locals
    storeOps,               \* number of store changes so far
    redis_client,           \* TRUE when the Redis connection was made at start
    PARAMETER_SCHEMA,       \* the parameter schema loaded at start (module global)
    handler,                \* the endpoint being served and its argument
    result,                 \* what the caller of the endpoint gets back
    left,                   \* history: ids whose key has left the store
    leftAtLoad,             \* history: left, as it was when the handler's refresh read the store
    redis_up,               \* TRUE while the Redis server answers
    stream,                 \* the events the streaming response has yielded
    loads,                  \* history: the store reads of the refreshes, in order
    lock                    \* the thread that holds model_registry_lock

vars == <<AVAILABLE_MODELS, store, request, max_retries, pc, dynamic_models,
          static_models, available_model_names, fuzzy_match, suitable_models,
          selected_model, attempt, events, reads, bg, storeOps, redis_client,
          PARAMETER_SCHEMA, handler, result, left, leftAtLoad,
          redis_up, stream, loads, lock>>

----------------------------------------------------------------------------
(* Bounds *)

\* longest generated body of a requested id
MaxLen == 3
\* most candidates handed to find_best_model_match
MaxCand == 2
\* most entries of the dynamic store
MaxDynamic == 2
\* largest max_retries drawn
MaxRetriesBound == 2
\* most chunks of one provider stream
MaxChunks == 2
\* most store changes in one behaviour
MaxStoreOps == 1
\* most background refresh rounds in one behaviour
MaxRefresh == 1

\* default of try_with_fallback's max_retries
DefaultMaxRetries == 2

----------------------------------------------------------------------------
(* Strings *)

\* Python None
None == <<"None">>

\* "remote_"
s_remote_us ==
    <<"r","e","m","o","t","e","_">>
\* "gpt-4o-mini"
s_gpt_4o_mini ==
    <<"g","p","t","-","4","o","-","m","i","n","i">>
\* "claude-3-haiku-20240307"
s_claude_3_haiku ==
    <<"c","l","a","u","d","e","-","3","-","h","a","i","k","u","-","2","0","2","4","0","3","0","7">>
\* "gemini-pro"
s_gemini_pro ==
    <<"g","e","m","i","n","i","-","p","r","o">>
\* "mixtral-8x7b-32768"
s_mixtral ==
    <<"m","i","x","t","r","a","l","-","8","x","7","b","-","3","2","7","6","8">>
\* "llama3.1:8b"
s_llama31_8b ==
    <<"l","l","a","m","a","3",".","1",":","8","b">>
\* "mistral-nemo:12b"
s_mistral_nemo_12b ==
    <<"m","i","s","t","r","a","l","-","n","e","m","o",":","1","2","b">>
\* "mistral:22b"
s_mistral_22b ==
    <<"m","i","s","t","r","a","l",":","2","2","b">>
\* "model"
s_model ==
    <<"m","o","d","e","l">>
\* "qwen2.5"
s_qwen25 ==
    <<"q","w","e","n","2",".","5">>
\* "my_model"
s_my_model ==
    <<"m","y","_","m","o","d","e","l">>
\* "mistral:10b"
s_mistral_10b ==
    <<"m","i","s","t","r","a","l",":","1","0","b">>
\* "mistral-nemo:10b"
s_mistral_nemo_10b ==
    <<"m","i","s","t","r","a","l","-","n","e","m","o",":","1","0","b">>
\* "mistral:22B"
s_mistral_22B ==
    <<"m","i","s","t","r","a","l",":","2","2","B">>
\* "MISTRAL-NEMO:12B"
s_MISTRAL_NEMO_12B ==
    <<"M","I","S","T","R","A","L","-","N","E","M","O",":","1","2","B">>
\* "qwen"
s_qwen ==
    <<"q","w","e","n">>
\* "qwe"
s_qwe ==
    <<"q","w","e">>
\* "fake-model-12345"
s_fake_model ==
    <<"f","a","k","e","-","m","o","d","e","l","-","1","2","3","4","5">>
\* "remote_abc123_gpt-4o-mini"
s_remote_abc123_gpt ==
    <<"r","e","m","o","t","e","_","a","b","c","1","2","3","_","g","p","t","-","4","o","-","m","i","n","i">>
\* "remote_edl9t5a53mdsu3ttw_mistral-nemo:12b"
s_remote_edl_nemo ==
    <<"r","e","m","o","t","e","_","e","d","l","9","t","5","a","5","3","m","d","s","u","3","t","t","w","_","m","i","s","t","r","a","l","-","n","e","m","o",":","1","2","b">>
\* "remote_id1_my_model"
s_remote_id1_my_model ==
    <<"r","e","m","o","t","e","_","i","d","1","_","m","y","_","m","o","d","e","l">>
\* "remote_ab_model"
s_remote_ab_model ==
    <<"r","e","m","o","t","e","_","a","b","_","m","o","d","e","l">>
\* "remote_only"
s_remote_only ==
    <<"r","e","m","o","t","e","_","o","n","l","y">>
\* "remote-mistral-nemo:12b"
s_remote_dash_nemo ==
    <<"r","e","m","o","t","e","-","m","i","s","t","r","a","l","-","n","e","m","o",":","1","2","b">>
\* "remote:gpt-4o-mini"
s_remote_colon_gpt ==
    <<"r","e","m","o","t","e",":","g","p","t","-","4","o","-","m","i","n","i">>
\* "anthropic/claude-3-haiku-20240307"
s_anthropic_claude ==
    <<"a","n","t","h","r","o","p","i","c","/","c","l","a","u","d","e","-","3","-","h","a","i","k","u","-","2","0","2","4","0","3","0","7">>
\* "mistral: 22b"
s_mistral_sp_22b ==
    <<"m","i","s","t","r","a","l",":"," ","2","2","b">>

Upper == <<"A","B","C","D","E","F","G","H","I","J","K","L","M",
           "N","O","P","Q","R","S","T","U","V","W","X","Y","Z">>
Lower == <<"a","b","c","d","e","f","g","h","i","j","k","l","m",
           "n","o","p","q","r","s","t","u","v","w","x","y","z">>

UpperToLower ==
    [u \in {Upper[i] : i \in 1..26} |-> Lower[CHOOSE i \in 1..26 : Upper[i] = u]]

\* str.lower() on one character
LowerChar(c) == IF c \in DOMAIN UpperToLower THEN UpperToLower[c] ELSE c

\* str.lower()
lower(s) == [i \in 1..Len(s) |-> LowerChar(s[i])]

\* str.startswith(p)
startswith(s, p) == Len(s) >= Len(p) /\ SubSeq(s, 1, Len(p)) = p

\* sub in s (Python substring test)
IsSubstring(sub, s) ==
    \E i \in 0..(Len(s) - Len(sub)) : SubSeq(s, i + 1, i + Len(sub)) = sub

RECURSIVE IndexFrom(_, _, _)
\* index of the first occurrence of character c in s at or after i, 0 when absent
IndexFrom(s, c, i) ==
    IF i > Len(s) THEN 0
    ELSE IF s[i] = c THEN i
    ELSE IndexFrom(s, c, i + 1)

\* str.find(c) + 1
IndexOf(s, c) == IndexFrom(s, c, 1)

\* str.split(sep, maxsplit) for a one-character separator
RECURSIVE split(_, _, _)
split(s, sep, maxsplit) ==
    IF maxsplit = 0 \/ IndexOf(s, sep) = 0
    THEN <<s>>
    ELSE LET i == IndexOf(s, sep) IN
         <<SubSeq(s, 1, i - 1)>> \o split(SubSeq(s, i + 1, Len(s)), sep, maxsplit - 1)

\* str.strip(): drop leading and trailing blanks
RECURSIVE strip(_)
strip(s) ==
    IF s = <<>> THEN s
    ELSE IF Head(s) = " " THEN strip(Tail(s))
    ELSE IF s[Len(s)] = " " THEN strip(SubSeq(s, 1, Len(s) - 1))
    ELSE s

\* set(str)
CharSet(s) == {s[i] : i \in 1..Len(s)}

Min(a, b) == IF a <= b THEN a ELSE b
Max(a, b) == IF a >= b THEN a ELSE b

\* comparisons of scores <<num, den>>, den > 0
RGt(a, b) == a[1] * b[2] > b[1] * a[2]
RGe(a, b) == a[1] * b[2] >= b[1] * a[2]
REq(a, b) == a[1] * b[2] = b[1] * a[2]

----------------------------------------------------------------------------
(* Similarity resolver *)

extract_model_parts(model_name) ==
    LET name1 == IF IndexOf(model_name, "/") # 0
                 THEN split(model_name, "/", 1)[2]
                 ELSE model_name
    IN  IF IndexOf(name1, ":") # 0
        THEN LET p == split(name1, ":", 1) IN <<strip(p[1]), strip(p[2])>>
        ELSE <<strip(name1), <<>>>>

calculate_string_similarity(str1, str2) ==
    IF str1 = str2 THEN <<1, 1>>
    ELSE IF str1 = <<>> \/ str2 = <<>> THEN <<0, 1>>
    ELSE IF IsSubstring(str1, str2) \/ IsSubstring(str2, str1)
         THEN <<Min(Len(str1), Len(str2)), Max(Len(str1), Len(str2))>>
    ELSE <<Cardinality(CharSet(str1) \cap CharSet(str2)),
           Cardinality(CharSet(str1) \cup CharSet(str2))>>

\* variant of ParamMismatchPenalty: the comparison of the parameters is inverted
ParamMismatchPenaltyInverted(base_similarity, req_params, avail_params) ==
    /\ RGt(base_similarity, <<8, 10>>)
    /\ req_params = avail_params
    /\ req_params # <<>>
    /\ avail_params # <<>>

\* line 114: the guard of the heavy penalty for a parameter mismatch
ParamMismatchPenalty(base_similarity, req_params, avail_params) ==
    /\ RGt(base_similarity, <<8, 10>>)
    /\ req_params # avail_params
    /\ req_params # <<>>
    /\ avail_params # <<>>

calculate_model_similarity(requested, available) ==
    LET req_lower == lower(requested)
        avail_lower == lower(available)
        req == extract_model_parts(req_lower)
        avail == extract_model_parts(avail_lower)
        base_similarity == calculate_string_similarity(req[1], avail[1])
        \* param_similarity in tenths: 1.0 or 0.3
        param_tenths == IF req[2] = avail[2] THEN 10 ELSE 3
    IN  IF req_lower = avail_lower THEN <<1, 1>>
        ELSE IF ParamMismatchPenalty(base_similarity, req[2], avail[2])
             THEN <<base_similarity[1], 2 * base_similarity[2]>>
        ELSE <<70 * base_similarity[1] + 3 * param_tenths * base_similarity[2],
               100 * base_similarity[2]>>

\* variant of CleanRequested: split without the limit of two splits, so an
\* underscore inside the model name cuts the name
CleanRequestedSplitsAll(requested_model) ==
    IF startswith(requested_model, s_remote_us)
    THEN LET parts == split(requested_model, "_", -1) IN
         IF Len(parts) >= 3 THEN parts[3] ELSE requested_model
    ELSE requested_model

\* lines 54-59: removal of a remote_<id>_ prefix
CleanRequested(requested_model) ==
    IF startswith(requested_model, s_remote_us)
    THEN LET parts == split(requested_model, "_", 2) IN
         IF Len(parts) >= 3 THEN parts[3] ELSE requested_model
    ELSE requested_model

\* variant of MeetsThreshold: strictly above 70%
MeetsThresholdStrict(score) == RGt(score, <<7, 10>>)

\* line 74: the minimum threshold of 70% similarity
MeetsThreshold(score) == RGe(score, <<7, 10>>)

\* lines 67-76: the scoring loop; yields <<best_match, best_score>>
RECURSIVE FuzzyLoop(_, _, _, _, _)
FuzzyLoop(clean_requested, available_models, i, best_match, best_score) ==
    IF i > Len(available_models) THEN <<best_match, best_score>>
    ELSE LET score == calculate_model_similarity(clean_requested, available_models[i]) IN
         IF RGt(score, best_score) /\ MeetsThreshold(score)
         THEN FuzzyLoop(clean_requested, available_models, i + 1, available_models[i], score)
         ELSE FuzzyLoop(clean_requested, available_models, i + 1, best_match, best_score)

InList(x, list) == \E i \in 1..Len(list) : list[i] = x

find_best_model_match(requested_model, available_models) ==
    IF requested_model = None \/ requested_model = <<>> \/ available_models = <<>>
    THEN None
    ELSE LET clean_requested == CleanRequested(requested_model) IN
         IF InList(clean_requested, available_models)
         THEN clean_requested
         ELSE FuzzyLoop(clean_requested, available_models, 1, None, <<0, 1>>)[1]

----------------------------------------------------------------------------
(* Model descriptors.  cost_per_1k_tokens is kept in hundredths. *)

Descriptor(model, provider, api_key_env, priority, cost, task_types, max_tokens, dynamic) ==
    [model |-> model, provider |-> provider, api_key_env |-> api_key_env,
     priority |-> priority, cost_per_1k_tokens |-> cost,
     task_types |-> task_types, max_tokens |-> max_tokens, dynamic |-> dynamic]

MODEL_CONFIGS ==
    << Descriptor(s_gpt_4o_mini, "openai", "OPENAI_API_KEY", 1, 15,
                  {"general", "search", "summary", "followup"}, 128000, FALSE),
       Descriptor(s_claude_3_haiku, "anthropic", "ANTHROPIC_API_KEY", 2, 25,
                  {"general", "summary", "followup"}, 200000, FALSE),
       Descriptor(s_gemini_pro, "google", "GOOGLE_API_KEY", 3, 50,
                  {"general", "search", "followup"}, 32768, FALSE),
       Descriptor(s_mixtral, "groq", "GROQ_API_KEY", 4, 27,
                  {"general", "search"}, 32768, FALSE),
       Descriptor(s_llama31_8b, "ollama", "", 5, 0,
                  {"general", "summary"}, 128000, FALSE) >>

\* DynamicModelConfig defaults: priority 999, cost 0.0, task_types ["general"],
\* max_tokens 2048; add_dynamic_model and discover_remote_server set dynamic
DynamicPool ==
    { Descriptor(s_mistral_nemo_12b, "ollama", "", 999, 0, {"general"}, 2048, TRUE),
      Descriptor(s_mistral_22b, "ollama", "", 2, 0, {"general", "summary"}, 2048, TRUE),
      Descriptor(s_model, "custom", "", 1, 15, {"summary", "search"}, 4096, TRUE),
      Descriptor(s_my_model, "custom", "", 3, 0, {"search"}, 2048, TRUE) }

\* the API keys found in the environment
EnvChoices ==
    { {},
      {"OPENAI_API_KEY"},
      {"OPENAI_API_KEY", "ANTHROPIC_API_KEY", "GOOGLE_API_KEY", "GROQ_API_KEY"} }

NoModel == Descriptor(None, "none", "", 0, 0, {}, 0, FALSE)

\* ChatMessage
UserMessage == [role |-> "user", content |-> "Hello"]

\* an Optional[int] is <<>> for None and <<n>> for the integer n
NoInt == <<>>

\* PARAMETER_SCHEMA after a failed load of parameters.json (line 263): no
\* parameter has a schema
NoSchema == [max_tokens |-> <<>>, task_type |-> <<>>]

\* task_type: Optional[str] = None (line 474): the value of a request that
\* gives no task type; it is no member of any descriptor's task_types
NoTaskType == "None"

\* ModelValidationResult
ModelValidationResult(available, error) == [available |-> available, error |-> error]

NoValidation == ModelValidationResult(FALSE, "")

\* the endpoint being served
Serving(name, config) ==
    [name |-> name, config |-> config, validation |-> NoValidation]

\* no key has left the store
NoneLeft == [ids |-> {}, pending |-> {}]

\* the key of id x leaves the store; x is pending until a refresh completes
KeyLeaves(l, x) == [ids |-> l.ids \cup {x}, pending |-> l.pending \cup {x}]

\* a key for id x is written
KeyWritten(l, x) == [ids |-> l.ids \ {x}, pending |-> l.pending \ {x}]

\* a refresh has installed its list
RefreshCompleted(l) == [l EXCEPT !.pending = {}]

\* lines 1162-1170 and 1219-1223: the success response of add and remove
Success(config) == [status |-> 200, detail |-> config.model]

\* nothing has been returned yet
NoResult == [status |-> 0, detail |-> <<>>]

\* min(list, key=Key): the first element with the least key
MinBy(list, Key(_)) ==
    list[CHOOSE i \in 1..Len(list) :
            /\ \A j \in 1..Len(list) : Key(list[i]) <= Key(list[j])
            /\ \A j \in 1..(i - 1) : Key(list[j]) > Key(list[i])]

load_static_models(env) ==
    LET Usable(config) == config.api_key_env = "" \/ config.api_key_env \in env
    IN  SelectSeq(MODEL_CONFIGS, Usable)

IsDynamic(m) == m.dynamic
IsStatic(m) == ~m.dynamic

\* sequences without repetition of at most n members of S
RECURSIVE Arrangements(_, _)
Arrangements(S, n) ==
    IF n = 0 THEN {<<>>}
    ELSE LET shorter == Arrangements(S, n - 1) IN
         shorter \cup {Append(a, x) : a \in {b \in shorter : Len(b) = n - 1},
                                       x \in S}

DistinctIds(list) ==
    \A i, j \in 1..Len(list) : i # j => list[i].model # list[j].model

\* the store contents drawn: one key per model id
Stores == {st \in Arrangements(DynamicPool, MaxDynamic) : DistinctIds(st)}

----------------------------------------------------------------------------
(* refresh_models_from_redis, lines 580-596, on the request thread *)

\* lines 528-534: json.loads raises for a value that is not JSON text, and the
\* entry is skipped; every other value is appended as it was parsed
Deserializes(entry) == "raw" \notin DOMAIN entry

\* load_dynamic_models(), lines 517-540: the entries of the store in KEYS
\* order; without a client (line 520) and when the KEYS call raises (lines
\* 538-540) the empty list
load_dynamic_models == IF redis_client /\ redis_up THEN SelectSeq(store, Deserializes) ELSE <<>>

\* one store read of a refresh: the thread, the list read, whether the server
\* answered, whether every earlier refresh had installed its list by then,
\* and whether this refresh has installed its list
Load(by, list, up, fresh) ==
    [by |-> by, list |-> list, up |-> up, fresh |-> fresh, done |-> FALSE]

\* every refresh that has read the store has installed its list
AllInstalled(ls) == \A i \in 1..Len(ls) : ls[i].done

\* the index of the last store read made by the thread
LastLoadIndex(ls, by) ==
    CHOOSE i \in 1..Len(ls) :
        ls[i].by = by /\ \A j \in (i + 1)..Len(ls) : ls[j].by # by

\* the refresh of the thread installs its list
Installed(ls, by) == [ls EXCEPT ![LastLoadIndex(ls, by)].done = TRUE]

\* variant of ReqRefreshLoad: the store is read inside the with block of line 590
ReqRefreshLoadLocked ==
    /\ pc = "refresh"
    /\ lock = "none"
    /\ lock' = IF redis_client THEN "request" ELSE "none"
    /\ IF redis_client
       THEN /\ dynamic_models' = load_dynamic_models
            /\ leftAtLoad' = left.ids
            /\ loads' = Append(loads, Load("request", load_dynamic_models, redis_up,
                                             AllInstalled(loads)))
            /\ pc' = "refresh_static"
            /\ UNCHANGED result
       ELSE /\ IF handler.name = "chat"
               THEN pc' = "names" /\ UNCHANGED result
               ELSE pc' = "admin_done" /\ result' = Success(handler.config)
            /\ UNCHANGED <<dynamic_models, leftAtLoad, loads>>
    /\ UNCHANGED <<AVAILABLE_MODELS, store, request, max_retries, static_models,
                   available_model_names, fuzzy_match, suitable_models,
                   selected_model, attempt, events, reads, bg, storeOps, redis_client,
                   PARAMETER_SCHEMA, handler, left,
                   redis_up, stream>>

\* lines 583-587
ReqRefreshLoad ==
    /\ pc = "refresh"
    /\ IF redis_client
       THEN /\ dynamic_models' = load_dynamic_models
            /\ leftAtLoad' = left.ids
            /\ loads' = Append(loads, Load("request", load_dynamic_models, redis_up,
                                             AllInstalled(loads)))
            /\ pc' = "refresh_static"
            /\ UNCHANGED result
       ELSE /\ IF handler.name = "chat"
               THEN pc' = "names" /\ UNCHANGED result
               ELSE pc' = "admin_done" /\ result' = Success(handler.config)
            /\ UNCHANGED <<dynamic_models, leftAtLoad, loads>>
    /\ UNCHANGED <<AVAILABLE_MODELS, store, request, max_retries, static_models,
                   available_model_names, fuzzy_match, suitable_models,
                   selected_model, attempt, events, reads, bg, storeOps, redis_client,
                   PARAMETER_SCHEMA, handler, left,
                   redis_up, stream, lock>>

\* variant of ReqRefreshStatic: the dynamic entries of the old list are kept too
ReqRefreshStaticKeepsAll ==
    /\ pc = "refresh_static"
    /\ static_models' = AVAILABLE_MODELS
    /\ pc' = "refresh_swap"
    /\ UNCHANGED <<AVAILABLE_MODELS, store, request, max_retries, dynamic_models,
                   available_model_names, fuzzy_match, suitable_models,
                   selected_model, attempt, events, reads, bg, storeOps, redis_client,
                   PARAMETER_SCHEMA, handler, result, left, leftAtLoad,
                   redis_up, stream, loads, lock>>

\* line 588
ReqRefreshStatic ==
    /\ pc = "refresh_static"
    /\ static_models' = SelectSeq(AVAILABLE_MODELS, IsStatic)
    /\ pc' = "refresh_swap"
    /\ UNCHANGED <<AVAILABLE_MODELS, store, request, max_retries, dynamic_models,
                   available_model_names, fuzzy_match, suitable_models,
                   selected_model, attempt, events, reads, bg, storeOps, redis_client,
                   PARAMETER_SCHEMA, handler, result, left, leftAtLoad,
                   redis_up, stream, loads, lock>>

\* line 590: with model_registry_lock, an RLock (line 251)
ReqRefreshLock ==
    /\ pc = "refresh_swap"
    /\ lock = "none"
    /\ lock' = "request"
    /\ UNCHANGED <<AVAILABLE_MODELS, store, request, max_retries, pc, dynamic_models,
                   static_models, available_model_names, fuzzy_match,
                   suitable_models, selected_model, attempt, events, reads, bg,
                   storeOps, redis_client, PARAMETER_SCHEMA, handler, result, left,
                   leftAtLoad, redis_up, stream, loads>>

\* line 591, and the end of the with block
ReqRefreshSwap ==
    /\ pc = "refresh_swap"
    /\ lock = "request"
    /\ lock' = "none"
    /\ AVAILABLE_MODELS' = static_models \o dynamic_models
    /\ left' = RefreshCompleted(left)
    /\ loads' = Installed(loads, "request")
    /\ IF handler.name = "chat"
       THEN pc' = "names" /\ UNCHANGED result
       ELSE pc' = "admin_done" /\ result' = Success(handler.config)
    /\ UNCHANGED <<store, request, max_retries, dynamic_models, static_models,
                   available_model_names, fuzzy_match, suitable_models,
                   selected_model, attempt, events, reads, bg, storeOps, redis_client,
                   PARAMETER_SCHEMA, handler, leftAtLoad,
                   redis_up, stream>>

----------------------------------------------------------------------------
(* select_optimal_model, lines 598-663 *)

Truthy(s) == s # None /\ s # <<>>

\* an error response: the status code and the detail text
HTTPException(status_code, detail) == [status |-> status_code, detail |-> detail]

ModelNames(list) == [i \in 1..Len(list) |-> list[i].model]

\* variant of HasModel: the scan stops one entry short of the end of the list
HasModelSkipsLast(list, name) == \E i \in 1..(Len(list) - 1) : list[i].model = name

\* lines 617-621 and 628-632: the first config whose model equals name
HasModel(list, name) == \E i \in 1..Len(list) : list[i].model = name
FirstWithModel(list, name) ==
    list[CHOOSE i \in 1..Len(list) :
            list[i].model = name /\ \A j \in 1..(i - 1) : list[j].model # name]

SelNames ==
    /\ pc = "names"
    /\ lock # "background"
    /\ available_model_names' = ModelNames(AVAILABLE_MODELS)
    /\ reads' = <<AVAILABLE_MODELS>>
    /\ pc' = IF Truthy(request.model) THEN "exact" ELSE "pool"
    /\ UNCHANGED <<AVAILABLE_MODELS, store, request, max_retries, dynamic_models,
                   static_models, fuzzy_match, suitable_models, selected_model,
                   attempt, events, bg, storeOps, redis_client,
                   PARAMETER_SCHEMA, handler, result, left, leftAtLoad,
                   redis_up, stream, loads, lock>>

SelExact ==
    /\ pc = "exact"
    /\ lock # "background"
    /\ reads' = Append(reads, AVAILABLE_MODELS)
    /\ IF HasModel(AVAILABLE_MODELS, request.model)
       THEN /\ selected_model' = FirstWithModel(AVAILABLE_MODELS, request.model)
            /\ pc' = "attempt"
       ELSE /\ pc' = "fuzzy"
            /\ UNCHANGED selected_model
    /\ UNCHANGED <<AVAILABLE_MODELS, store, request, max_retries, dynamic_models,
                   static_models, available_model_names, fuzzy_match,
                   suitable_models, attempt, events, bg, storeOps, redis_client,
                   PARAMETER_SCHEMA, handler, result, left, leftAtLoad,
                   redis_up, stream, loads, lock>>

SelFuzzy ==
    /\ pc = "fuzzy"
    /\ lock # "background"
    /\ LET match == find_best_model_match(request.model, available_model_names) IN
       /\ fuzzy_match' = match
       /\ IF Truthy(match)
          THEN /\ reads' = Append(reads, AVAILABLE_MODELS)
               /\ IF HasModel(AVAILABLE_MODELS, match)
                  THEN /\ selected_model' = FirstWithModel(AVAILABLE_MODELS, match)
                       /\ pc' = "attempt"
                  ELSE /\ pc' = "pool"
                       /\ UNCHANGED selected_model
          ELSE /\ pc' = "pool"
               /\ UNCHANGED <<selected_model, reads>>
    /\ UNCHANGED <<AVAILABLE_MODELS, store, request, max_retries, dynamic_models,
                   static_models, available_model_names, suitable_models,
                   attempt, events, bg, storeOps, redis_client,
                   PARAMETER_SCHEMA, handler, result, left, leftAtLoad,
                   redis_up, stream, loads, lock>>

\* task_type in config.get("task_types", ["general"])
SuitsTask(config, task_type) == task_type \in config.task_types

\* variant of TaskPool: no fallback to the whole list
TaskPoolNoFallback(list, task_type) ==
    LET Suits(config) == SuitsTask(config, task_type)
    IN  SelectSeq(list, Suits)

\* lines 638-645
TaskPool(list, task_type) ==
    LET Suits(config) == SuitsTask(config, task_type)
        suitable == SelectSeq(list, Suits)
    IN  IF suitable = <<>> THEN list ELSE suitable

SelPool ==
    /\ pc = "pool"
    /\ lock # "background"
    /\ reads' = Append(reads, AVAILABLE_MODELS)
    /\ suitable_models' = TaskPool(AVAILABLE_MODELS, request.task_type)
    /\ pc' = "strategy"
    /\ UNCHANGED <<AVAILABLE_MODELS, store, request, max_retries, dynamic_models,
                   static_models, available_model_names, fuzzy_match,
                   selected_model, attempt, events, bg, storeOps, redis_client,
                   PARAMETER_SCHEMA, handler, result, left, leftAtLoad,
                   redis_up, stream, loads, lock>>

CostKey(x) == x.cost_per_1k_tokens
PriorityKey(x) == x.priority
IsOllama(m) == m.provider = "ollama"

\* variant of CostChoice: the key of the minimum is the priority
CostChoiceByPriority(suitable) == MinBy(suitable, PriorityKey)

\* lines 649-650
CostChoice(suitable) == MinBy(suitable, CostKey)

\* variant of PriorityChoice: the key of the minimum is the cost
PriorityChoiceByCost(suitable) == MinBy(suitable, CostKey)

\* lines 652-653 and 659-660
PriorityChoice(suitable) == MinBy(suitable, PriorityKey)

\* variant of LocalChoice: the ollama filter is not consulted
LocalChoiceIgnoresProvider(suitable) == suitable[1]

\* lines 655-657
LocalChoice(suitable) ==
    LET local_models == SelectSeq(suitable, IsOllama) IN
    IF local_models # <<>> THEN local_models[1] ELSE suitable[1]

\* lines 647-663
ApplyStrategy(strategy, suitable) ==
    IF strategy = "cost" THEN CostChoice(suitable)
    ELSE IF strategy = "performance" THEN PriorityChoice(suitable)
    ELSE IF strategy = "local" THEN LocalChoice(suitable)
    ELSE PriorityChoice(suitable)

\* a descriptor field whose JSON value is null: the fields are numbers of at
\* least 0, and this value stands for Python's None
NullNumber == 0 - 1

\* the key min() compares under the strategy; the local strategy compares none
StrategyKey(strategy, x) ==
    IF strategy = "cost" THEN x.cost_per_1k_tokens
    ELSE IF strategy = "local" THEN 0
    ELSE x.priority

\* min() compares the keys of a list of two or more, and comparing None with
\* a number raises TypeError
StrategyRaises(strategy, suitable) ==
    /\ Len(suitable) >= 2
    /\ \E i \in 1..Len(suitable) : StrategyKey(strategy, suitable[i]) = NullNumber

\* min() of an empty list raises ValueError and [0] of one IndexError; the
\* exception leaves try_with_fallback and chat_completions answers 500 with
\* its text (lines 1081-1083)
SelStrategy ==
    /\ pc = "strategy"
    /\ IF suitable_models = <<>>
       THEN /\ pc' = "select_raised"
            /\ result' = HTTPException(500, <<"min() arg is an empty sequence">>)
            /\ UNCHANGED selected_model
       ELSE IF StrategyRaises(request.strategy, suitable_models)
       THEN /\ pc' = "select_raised"
            /\ result' = HTTPException(500, <<"'<' not supported between instances of 'NoneType' and 'int'">>)
            /\ UNCHANGED selected_model
       ELSE /\ selected_model' = ApplyStrategy(request.strategy, suitable_models)
            /\ pc' = "attempt"
            /\ UNCHANGED result
    /\ UNCHANGED <<AVAILABLE_MODELS, store, request, max_retries, dynamic_models,
                   static_models, available_model_names, fuzzy_match,
                   suitable_models, attempt, events, reads, bg, storeOps, redis_client,
                   PARAMETER_SCHEMA, handler, left, leftAtLoad,
                   redis_up, stream, loads, lock>>

----------------------------------------------------------------------------
(* try_with_fallback, lines 867-903 *)

\* line 771: the max_tokens used when the request sets none
DefaultMaxTokens == 4096

\* lines 765-773 of call_litellm: "if request.max_tokens:" is false for None
\* and for 0
OutboundMaxTokens(req, config) ==
    IF req.max_tokens # NoInt /\ req.max_tokens[1] # 0
    THEN Min(req.max_tokens[1], config.max_tokens)
    ELSE Min(DefaultMaxTokens, config.max_tokens)

\* lines 738-751 of call_litellm: every ChatMessage becomes a role/content
\* dictionary, none is added or dropped
MessagesForLitellm(req) ==
    [i \in 1..Len(req.messages) |->
        [role |-> req.messages[i].role, content |-> req.messages[i].content]]

\* line 879: call_litellm builds the arguments, starts the provider call
\* (litellm.acompletion, line 836 or 838) and awaits it
CallStart ==
    /\ pc = "attempt"
    /\ events' = Append(events, [attemptNumber |-> attempt + 1,
                                 descriptorId |-> selected_model.model,
                                 outcome |-> "pending",
                                 max_tokens |-> OutboundMaxTokens(request, selected_model),
                                 messages |-> MessagesForLitellm(request),
                                 errorMessage |-> "",
                                 chunks |-> <<>>])
    /\ pc' = "awaiting"
    /\ UNCHANGED <<AVAILABLE_MODELS, store, request, max_retries, dynamic_models,
                   static_models, available_model_names, fuzzy_match,
                   suitable_models, selected_model, attempt, reads, bg, storeOps,
                   redis_client,
                   PARAMETER_SCHEMA, handler, result, left, leftAtLoad,
                   redis_up, stream, loads, lock>>

SetOutcome(evs, outcome) == [evs EXCEPT ![Len(evs)].outcome = outcome]

SetFailure(evs, e) ==
    [evs EXCEPT ![Len(evs)].outcome = "failure", ![Len(evs)].errorMessage = e]

\* lines 1056-1077: the response (status and the metadata of the model that
\* served it); for a streaming request the body follows as events
Completion(config) == [status |-> 200, detail |-> config.model]

\* lines 899-902
AllProvidersFailed(e) ==
    HTTPException(500, <<"All LLM providers failed. Last error: ", e>>)

\* variant of CallSucceed: the result is not returned and the loop goes on
CallSucceedNoReturn ==
    /\ pc = "awaiting"
    /\ events' = SetOutcome(events, "success")
    /\ IF attempt + 1 < max_retries + 1
       THEN attempt' = attempt + 1 /\ pc' = "attempt"
       ELSE attempt' = attempt /\ pc' = "returned_none"
    /\ UNCHANGED <<AVAILABLE_MODELS, store, request, max_retries, dynamic_models,
                   static_models, available_model_names, fuzzy_match,
                   suitable_models, selected_model, reads, bg, storeOps,
                   redis_client,
                   PARAMETER_SCHEMA, handler, result, left, leftAtLoad,
                   redis_up, stream, loads, lock>>

\* lines 879-881: the provider call returned; the result is returned
CallSucceed ==
    /\ pc = "awaiting"
    /\ events' = SetOutcome(events, "success")
    /\ pc' = IF request.stream THEN "streaming" ELSE "done"
    /\ result' = Completion(selected_model)
    /\ UNCHANGED <<AVAILABLE_MODELS, store, request, max_retries, dynamic_models,
                   static_models, available_model_names, fuzzy_match,
                   suitable_models, selected_model, attempt, reads, bg, storeOps,
                   redis_client,
                   PARAMETER_SCHEMA, handler, left, leftAtLoad,
                   redis_up, stream, loads, lock>>

\* the exception texts drawn: errors of the provider, and errors of other types
ProviderErrors == {"litellm.Timeout: request timed out"}
UnexpectedErrors == {"KeyError: 'choices'"}
Errors == ProviderErrors \cup UnexpectedErrors

\* line 886
RetryAllowed(att, retries) == att < retries

\* lines 888-892
RemainingModels(list, current, task_type) ==
    LET Remaining(m) == m.model # current.model /\ SuitsTask(m, task_type)
    IN  SelectSeq(list, Remaining)

\* variant of CallFail: the except clause names the provider's error types
\* only, and any other exception leaves try_with_fallback as it is
CallFailNarrowExcept(e) ==
    /\ pc = "awaiting"
    /\ events' = SetFailure(events, e)
    /\ LET remaining_models ==
               RemainingModels(AVAILABLE_MODELS, selected_model, request.task_type)
       IN  IF e \notin ProviderErrors
           THEN /\ pc' = "raised"
                /\ result' = HTTPException(500, <<e>>)
                /\ UNCHANGED <<selected_model, attempt>>
           ELSE IF RetryAllowed(attempt, max_retries) /\ remaining_models # <<>>
           THEN /\ selected_model' = MinBy(remaining_models, PriorityKey)
                /\ attempt' = attempt + 1
                /\ pc' = "attempt"
                /\ UNCHANGED result
           ELSE /\ pc' = "raised"
                /\ result' = AllProvidersFailed(e)
                /\ UNCHANGED <<selected_model, attempt>>
    /\ UNCHANGED <<AVAILABLE_MODELS, store, request, max_retries, dynamic_models,
                   static_models, available_model_names, fuzzy_match,
                   suitable_models, reads, bg, storeOps, redis_client,
                   PARAMETER_SCHEMA, handler, left, leftAtLoad,
                   redis_up, stream, loads, lock>>

\* lines 883-903: the provider call raised the exception with text e
CallFail(e) ==
    /\ pc = "awaiting"
    /\ events' = SetFailure(events, e)
    /\ LET remaining_models ==
               RemainingModels(AVAILABLE_MODELS, selected_model, request.task_type)
       IN  IF RetryAllowed(attempt, max_retries) /\ remaining_models # <<>>
           THEN /\ selected_model' = MinBy(remaining_models, PriorityKey)
                /\ IF attempt + 1 < max_retries + 1
                   THEN attempt' = attempt + 1 /\ pc' = "attempt"
                   ELSE attempt' = attempt /\ pc' = "returned_none"
                /\ UNCHANGED result
           ELSE /\ pc' = "raised"
                /\ result' = AllProvidersFailed(e)
                /\ UNCHANGED <<selected_model, attempt>>
    /\ UNCHANGED <<AVAILABLE_MODELS, store, request, max_retries, dynamic_models,
                   static_models, available_model_names, fuzzy_match,
                   suitable_models, reads, bg, storeOps, redis_client,
                   PARAMETER_SCHEMA, handler, left, leftAtLoad,
                   redis_up, stream, loads, lock>>

----------------------------------------------------------------------------
(* background_model_refresh, lines 410-423: a thread that runs             *)
(* refresh_models_from_redis after every sleep; started only with Redis.   *)

BgLoad ==
    /\ redis_client
    /\ bg.pc = "sleep"
    /\ bg.rounds < MaxRefresh
    /\ bg' = [bg EXCEPT !.pc = "static", !.dynamic_models = load_dynamic_models,
                        !.leftAtLoad = left.ids]
    /\ loads' = Append(loads, Load("background", load_dynamic_models, redis_up,
                                        AllInstalled(loads)))
    /\ UNCHANGED <<AVAILABLE_MODELS, store, request, max_retries, pc,
                   dynamic_models, static_models, available_model_names,
                   fuzzy_match, suitable_models, selected_model, attempt, events,
                   reads, storeOps, redis_client,
                   PARAMETER_SCHEMA, handler, result, left, leftAtLoad,
                   redis_up, stream, lock>>

BgStatic ==
    /\ bg.pc = "static"
    /\ bg' = [bg EXCEPT !.pc = "swap",
                        !.static_models = SelectSeq(AVAILABLE_MODELS, IsStatic)]
    /\ UNCHANGED <<AVAILABLE_MODELS, store, request, max_retries, pc,
                   dynamic_models, static_models, available_model_names,
                   fuzzy_match, suitable_models, selected_model, attempt, events,
                   reads, storeOps, redis_client,
                   PARAMETER_SCHEMA, handler, result, left, leftAtLoad,
                   redis_up, stream, loads, lock>>

BgLock ==
    /\ bg.pc = "swap"
    /\ lock = "none"
    /\ lock' = "background"
    /\ UNCHANGED <<AVAILABLE_MODELS, store, request, max_retries, pc, dynamic_models,
                   static_models, available_model_names, fuzzy_match,
                   suitable_models, selected_model, attempt, events, reads, bg,
                   storeOps, redis_client, PARAMETER_SCHEMA, handler, result, left,
                   leftAtLoad, redis_up, stream, loads>>

BgSwap ==
    /\ bg.pc = "swap"
    /\ lock = "background"
    /\ lock' = "none"
    /\ AVAILABLE_MODELS' = bg.static_models \o bg.dynamic_models
    /\ bg' = [bg EXCEPT !.pc = "sleep", !.rounds = bg.rounds + 1]
    /\ left' = RefreshCompleted(left)
    /\ loads' = Installed(loads, "background")
    /\ UNCHANGED <<store, request, max_retries, pc, dynamic_models,
                   static_models, available_model_names, fuzzy_match,
                   suitable_models, selected_model, attempt, events, reads,
                   storeOps, redis_client,
                   PARAMETER_SCHEMA, handler, result, leftAtLoad,
                   redis_up, stream>>

----------------------------------------------------------------------------
(* The dynamic store *)

InsertAt(list, k, x) == SubSeq(list, 1, k) \o <<x>> \o SubSeq(list, k + 1, Len(list))

Without(list, name) ==
    LET Other(m) == m.model # name IN SelectSeq(list, Other)

\* redis setex of dynamic_model:<id> (lines 1151-1155 and 1331-1335), made by a
\* handler of the same event loop: only while the request handler is suspended
StoreSetex(d) ==
    /\ redis_client
    /\ redis_up
    /\ pc \in {"refresh", "awaiting", "done", "raised"}
    /\ storeOps < MaxStoreOps
    /\ LET others == Without(store, d.model) IN
       /\ Len(others) < MaxDynamic
       /\ \E k \in 0..Len(others) : store' = InsertAt(others, k, d)
    /\ storeOps' = storeOps + 1
    /\ left' = KeyWritten(left, d.model)
    /\ UNCHANGED <<AVAILABLE_MODELS, request, max_retries, pc, dynamic_models,
                   static_models, available_model_names, fuzzy_match,
                   suitable_models, selected_model, attempt, events, reads, bg,
                   redis_client,
                   PARAMETER_SCHEMA, handler, result, leftAtLoad,
                   redis_up, stream, loads, lock>>

\* the key leaves the store: redis delete (line 1212) or expiry of the 24 hour TTL
StoreDelete(name) ==
    /\ redis_client
    /\ storeOps < MaxStoreOps
    /\ HasModel(store, name)
    /\ store' = Without(store, name)
    /\ storeOps' = storeOps + 1
    /\ left' = KeyLeaves(left, name)
    /\ UNCHANGED <<AVAILABLE_MODELS, request, max_retries, pc, dynamic_models,
                   static_models, available_model_names, fuzzy_match,
                   suitable_models, selected_model, attempt, events, reads, bg,
                   redis_client,
                   PARAMETER_SCHEMA, handler, result, leftAtLoad,
                   redis_up, stream, loads, lock>>

----------------------------------------------------------------------------
(* chat_completions, lines 980-1083, up to its call of try_with_fallback *)

\* one parameter's entry of the schema: minimum, maximum and default are
\* Optional numbers
SchemaEntry(type, minimum, maximum, default) ==
    [type |-> type, minimum |-> minimum, maximum |-> maximum, default |-> default]

\* lines 326-343: a parameter the request does not set gets the schema's default
apply_parameter_defaults(req, schema) ==
    LET Defaulted(param_schema) == param_schema # <<>> /\ param_schema[1].default # <<>>
        max_tokens == IF req.max_tokens = NoInt /\ Defaulted(schema.max_tokens)
                      THEN schema.max_tokens[1].default
                      ELSE req.max_tokens
        task_type == IF req.task_type = NoTaskType /\ Defaulted(schema.task_type)
                     THEN schema.task_type[1].default[1]
                     ELSE req.task_type
    IN  [req EXCEPT !.max_tokens = max_tokens, !.task_type = task_type]

\* lines 268-305: the range check of a number; <<>> stands for no error
validate_parameter_value(value, param_schema) ==
    IF param_schema.type \in {"integer", "number"}
    THEN IF param_schema.minimum # NoInt /\ value < param_schema.minimum[1]
         THEN <<"max_tokens must be at least">>
         ELSE IF param_schema.maximum # NoInt /\ value > param_schema.maximum[1]
         THEN <<"max_tokens must be at most">>
         ELSE <<>>
    ELSE <<>>

\* lines 307-324: only parameters the request holds and the schema knows are checked
validate_parameters(req, schema) ==
    IF req.max_tokens # NoInt /\ schema.max_tokens # <<>>
    THEN validate_parameter_value(req.max_tokens[1], schema.max_tokens[1])
    ELSE <<>>

\* lines 984-988
ChatEntry ==
    /\ pc = "entry"
    /\ IF AVAILABLE_MODELS = <<>>
       THEN /\ pc' = "http_error"
            /\ result' = HTTPException(503, <<"No LLM providers available. Please configure API keys.">>)
       ELSE /\ pc' = "validate"
            /\ UNCHANGED result
    /\ UNCHANGED <<AVAILABLE_MODELS, store, request, max_retries, dynamic_models,
                   static_models, available_model_names, fuzzy_match,
                   suitable_models, selected_model, attempt, events, reads, bg,
                   storeOps, redis_client, PARAMETER_SCHEMA, handler, left,
                   leftAtLoad,
                   redis_up, stream, loads, lock>>

\* variant of ChatValidate: the validation error is logged and the request goes on
ChatValidateLogsOnly ==
    /\ pc = "validate"
    /\ request' = apply_parameter_defaults(request, PARAMETER_SCHEMA)
    /\ pc' = "refresh"
    /\ UNCHANGED <<AVAILABLE_MODELS, store, max_retries, dynamic_models,
                   static_models, available_model_names, fuzzy_match,
                   suitable_models, selected_model, attempt, events, reads, bg,
                   storeOps, redis_client, PARAMETER_SCHEMA, handler, result,
                   left, leftAtLoad,
                   redis_up, stream, loads, lock>>

\* lines 990-1024: defaults, validation, and the validated parameters written
\* back to the request; the messages are left out of all of it
ChatValidate ==
    /\ pc = "validate"
    /\ LET request_dict == apply_parameter_defaults(request, PARAMETER_SCHEMA)
           validation_error == validate_parameters(request_dict, PARAMETER_SCHEMA)
       IN  IF validation_error # <<>>
           THEN /\ pc' = "http_error"
                /\ result' = HTTPException(400, <<"Parameter validation failed: ">>
                                                 \o validation_error)
                /\ UNCHANGED request
           ELSE /\ pc' = "refresh"
                /\ request' = request_dict
                /\ UNCHANGED result
    /\ UNCHANGED <<AVAILABLE_MODELS, store, max_retries, dynamic_models,
                   static_models, available_model_names, fuzzy_match,
                   suitable_models, selected_model, attempt, events, reads, bg,
                   storeOps, redis_client, PARAMETER_SCHEMA, handler, left,
                   leftAtLoad,
                   redis_up, stream, loads, lock>>

----------------------------------------------------------------------------
(* generate_stream, lines 1042-1054: the body of a streaming response *)

\* json.dumps of a dictionary: the text of a JSON object
JsonDumps(d) == [text |-> "object", of |-> d]

\* a text written in the code
Literal(s) == [text |-> "literal", of |-> [chars |-> s]]

\* f"data: {...}\n\n"
DataEvent(text) == <<"data: ", text, "\n\n">>

\* line 1046
DoneEvent == DataEvent(Literal("[DONE]"))

\* lines 1048-1054
ErrorChunk(e) == [error |-> [message |-> e, type |-> "stream_error"]]

\* the chunks a provider stream delivers
Chunks == {[delta |-> "Hel"], [delta |-> "lo"]}

\* lines 1044-1045: the provider stream delivers a chunk and it is yielded
StreamChunk(chunk) ==
    /\ pc = "streaming"
    /\ Len(events[Len(events)].chunks) < MaxChunks
    /\ events' = [events EXCEPT ![Len(events)].chunks = Append(@, chunk)]
    /\ stream' = Append(stream, DataEvent(JsonDumps(chunk)))
    /\ UNCHANGED <<AVAILABLE_MODELS, store, request, max_retries, pc, dynamic_models,
                   static_models, available_model_names, fuzzy_match,
                   suitable_models, selected_model, attempt, reads, bg, storeOps,
                   redis_client, PARAMETER_SCHEMA, handler, result, left,
                   leftAtLoad, redis_up, loads, lock>>

\* line 1046: the provider stream has ended
StreamEnd ==
    /\ pc = "streaming"
    /\ stream' = Append(stream, DoneEvent)
    /\ pc' = "stream_closed"
    /\ UNCHANGED <<AVAILABLE_MODELS, store, request, max_retries, dynamic_models,
                   static_models, available_model_names, fuzzy_match,
                   suitable_models, selected_model, attempt, events, reads, bg,
                   storeOps, redis_client, PARAMETER_SCHEMA, handler, result, left,
                   leftAtLoad, redis_up, loads, lock>>

\* lines 1047-1054: the provider stream raised the exception with text e; the
\* error chunk is yielded and the generator returns
StreamError(e) ==
    /\ pc = "streaming"
    /\ events' = [events EXCEPT ![Len(events)].outcome = "stream_error",
                                ![Len(events)].errorMessage = e]
    /\ stream' = Append(stream, DataEvent(JsonDumps(ErrorChunk(e))))
    /\ pc' = "stream_closed"
    /\ UNCHANGED <<AVAILABLE_MODELS, store, request, max_retries, dynamic_models,
                   static_models, available_model_names, fuzzy_match,
                   suitable_models, selected_model, attempt, reads, bg, storeOps,
                   redis_client, PARAMETER_SCHEMA, handler, result, left,
                   leftAtLoad, redis_up, loads, lock>>

----------------------------------------------------------------------------
(* add_dynamic_model, lines 1119-1176, and remove_dynamic_model, 1192-1229 *)

RedisNotAvailable ==
    HTTPException(503, <<"Redis not available for dynamic model configuration">>)

\* lines 1122-1132: without Redis the endpoint answers 503; with it the live
\* test call of validate_model_config is started and awaited
AddEntry ==
    /\ pc = "add_entry"
    /\ IF ~redis_client
       THEN pc' = "http_error" /\ result' = RedisNotAvailable
       ELSE pc' = "add_validating" /\ UNCHANGED result
    /\ UNCHANGED <<AVAILABLE_MODELS, store, request, max_retries, dynamic_models,
                   static_models, available_model_names, fuzzy_match,
                   suitable_models, selected_model, attempt, events, reads, bg,
                   storeOps, redis_client, PARAMETER_SCHEMA, handler, left,
                   leftAtLoad,
                   redis_up, stream, loads, lock>>

\* variant of AddValidate: the result of the test call is not looked at
AddValidateIgnoresResult(validation_result) ==
    /\ pc = "add_validating"
    /\ handler' = [handler EXCEPT !.validation = validation_result]
    /\ pc' = "add_setex"
    /\ UNCHANGED <<AVAILABLE_MODELS, store, request, max_retries, dynamic_models,
                   static_models, available_model_names, fuzzy_match,
                   suitable_models, selected_model, attempt, events, reads, bg,
                   storeOps, redis_client, PARAMETER_SCHEMA, result, left,
                   leftAtLoad,
                   redis_up, stream, loads, lock>>

\* lines 1132-1139: validate_model_config has returned validation_result
\* (lines 543-577: available, or not available with the error text)
AddValidate(validation_result) ==
    /\ pc = "add_validating"
    /\ handler' = [handler EXCEPT !.validation = validation_result]
    /\ IF ~validation_result.available
       THEN /\ pc' = "http_error"
            /\ result' = HTTPException(400, <<"Model validation failed: ",
                                              validation_result.error>>)
       ELSE /\ pc' = "add_setex"
            /\ UNCHANGED result
    /\ UNCHANGED <<AVAILABLE_MODELS, store, request, max_retries, dynamic_models,
                   static_models, available_model_names, fuzzy_match,
                   suitable_models, selected_model, attempt, events, reads, bg,
                   storeOps, redis_client, PARAMETER_SCHEMA, left, leftAtLoad,
                   redis_up, stream, loads, lock>>

\* the text of the exception a Redis call raises when the server does not answer
ConnectionError == "Error connecting to Redis"

\* lines 1174-1176, 1227-1229 and 1361-1363: any other exception becomes a 500
\* with the exception's text
InternalError(e) == HTTPException(500, <<e>>)

\* lines 1141-1155: the descriptor is marked dynamic and written under the key
\* dynamic_model:<id>; a key that exists is overwritten.  A setex that raises
\* is caught at line 1174
AddSetex ==
    /\ pc = "add_setex"
    /\ IF redis_up
       THEN /\ LET model_data == [handler.config EXCEPT !.dynamic = TRUE]
                   others == Without(store, model_data.model)
               IN  \E k \in 0..Len(others) : store' = InsertAt(others, k, model_data)
            /\ left' = KeyWritten(left, handler.config.model)
            /\ pc' = "refresh"
            /\ UNCHANGED result
       ELSE /\ pc' = "http_error"
            /\ result' = InternalError(ConnectionError)
            /\ UNCHANGED <<store, left>>
    /\ UNCHANGED <<AVAILABLE_MODELS, request, max_retries, dynamic_models,
                   static_models, available_model_names, fuzzy_match,
                   suitable_models, selected_model, attempt, events, reads, bg,
                   storeOps, redis_client, PARAMETER_SCHEMA, handler,
                   leftAtLoad, redis_up, stream, loads, lock>>

\* lines 1195-1209
RemoveEntry ==
    /\ pc = "remove_entry"
    /\ IF ~redis_client
       THEN pc' = "http_error" /\ result' = RedisNotAvailable
       ELSE IF ~redis_up
       THEN pc' = "http_error" /\ result' = InternalError(ConnectionError)
       ELSE IF ~HasModel(store, handler.config.model)
       THEN /\ pc' = "http_error"
            /\ result' = HTTPException(404, <<"Model not found in dynamic registry">>)
       ELSE pc' = "remove_delete" /\ UNCHANGED result
    /\ UNCHANGED <<AVAILABLE_MODELS, store, request, max_retries, dynamic_models,
                   static_models, available_model_names, fuzzy_match,
                   suitable_models, selected_model, attempt, events, reads, bg,
                   storeOps, redis_client, PARAMETER_SCHEMA, handler, left,
                   leftAtLoad,
                   redis_up, stream, loads, lock>>

\* line 1212
RemoveDelete ==
    /\ pc = "remove_delete"
    /\ IF redis_up
       THEN /\ store' = Without(store, handler.config.model)
            /\ left' = IF HasModel(store, handler.config.model)
                       THEN KeyLeaves(left, handler.config.model)
                       ELSE left
            /\ pc' = "refresh"
            /\ UNCHANGED result
       ELSE /\ pc' = "http_error"
            /\ result' = InternalError(ConnectionError)
            /\ UNCHANGED <<store, left>>
    /\ UNCHANGED <<AVAILABLE_MODELS, request, max_retries, dynamic_models,
                   static_models, available_model_names, fuzzy_match,
                   suitable_models, selected_model, attempt, events, reads, bg,
                   storeOps, redis_client, PARAMETER_SCHEMA, handler,
                   leftAtLoad, redis_up, stream, loads, lock>>

----------------------------------------------------------------------------
(* discover_remote_server, lines 1287-1363, for a server that lists one model *)

\* lines 1290-1316: without a client 503; a server that cannot be listed 400
\* (lines 1400-1402 and 1439-1441)
DiscoverEntry(listed) ==
    /\ pc = "discover_entry"
    /\ IF ~redis_client
       THEN pc' = "http_error" /\ result' = RedisNotAvailable
       ELSE IF ~listed
       THEN /\ pc' = "http_error"
            /\ result' = HTTPException(400, <<"Failed to connect to Ollama server: ">>)
       ELSE pc' = "discover_setex" /\ UNCHANGED result
    /\ UNCHANGED <<AVAILABLE_MODELS, store, request, max_retries, dynamic_models,
                   static_models, available_model_names, fuzzy_match,
                   suitable_models, selected_model, attempt, events, reads, bg,
                   storeOps, redis_client, PARAMETER_SCHEMA, handler, left,
                   leftAtLoad, redis_up, stream, loads, lock>>

\* lines 1322-1342: the model is marked dynamic and written; a setex that
\* raises is counted as failed and the handler goes on to the refresh
DiscoverSetex ==
    /\ pc = "discover_setex"
    /\ IF redis_up
       THEN /\ LET model_data == [handler.config EXCEPT !.dynamic = TRUE]
                   others == Without(store, model_data.model)
               IN  \E k \in 0..Len(others) : store' = InsertAt(others, k, model_data)
            /\ left' = KeyWritten(left, handler.config.model)
       ELSE UNCHANGED <<store, left>>
    /\ pc' = "refresh"
    /\ UNCHANGED <<AVAILABLE_MODELS, request, max_retries, dynamic_models,
                   static_models, available_model_names, fuzzy_match,
                   suitable_models, selected_model, attempt, events, reads, bg,
                   storeOps, redis_client, PARAMETER_SCHEMA, handler, result,
                   leftAtLoad, redis_up, stream, loads, lock>>

\* refresh_models, lines 1269-1282: POST /models/refresh runs the refresh
RefreshEntry ==
    /\ pc = "refresh_entry"
    /\ pc' = "refresh"
    /\ UNCHANGED <<AVAILABLE_MODELS, store, request, max_retries, dynamic_models,
                   static_models, available_model_names, fuzzy_match,
                   suitable_models, selected_model, attempt, events, reads, bg,
                   storeOps, redis_client, PARAMETER_SCHEMA, handler, result,
                   left, leftAtLoad, redis_up, stream, loads, lock>>

\* the Redis server stops answering after the client was made
StoreOutage ==
    /\ redis_client
    /\ redis_up
    /\ redis_up' = FALSE
    /\ UNCHANGED <<AVAILABLE_MODELS, store, request, max_retries, pc, dynamic_models,
                   static_models, available_model_names, fuzzy_match,
                   suitable_models, selected_model, attempt, events, reads, bg,
                   storeOps, redis_client, PARAMETER_SCHEMA, handler, result,
                   left, leftAtLoad, stream, loads, lock>>

----------------------------------------------------------------------------
(* find_best_model_match called on its own *)

Match ==
    /\ pc = "match"
    /\ fuzzy_match' = find_best_model_match(request.model, available_model_names)
    /\ pc' = "matched"
    /\ UNCHANGED <<AVAILABLE_MODELS, store, request, max_retries, dynamic_models,
                   static_models, available_model_names, suitable_models,
                   selected_model, attempt, events, reads, bg, storeOps,
                   redis_client,
                   PARAMETER_SCHEMA, handler, result, left, leftAtLoad,
                   redis_up, stream, loads, lock>>

----------------------------------------------------------------------------
(* Inputs *)

TaskTypes == {"general", "summary", "search", "vision"}
Strategies == {"cost", "performance", "local", "balanced", "fastest"}

\* requested ids of the selection runs
RequestedIds ==
    { None, s_gpt_4o_mini, s_mistral_nemo_12b, s_mistral_10b, s_fake_model,
      s_remote_abc123_gpt, s_remote_edl_nemo, s_remote_id1_my_model,
      s_remote_ab_model }

Request(model, task_type, strategy) ==
    [model |-> model, task_type |-> task_type, strategy |-> strategy,
     max_tokens |-> NoInt, messages |-> <<UserMessage>>, stream |-> FALSE]

Requests == {Request(m, t, s) : m \in RequestedIds, t \in TaskTypes, s \in Strategies}

BgIdle == [pc |-> "sleep", dynamic_models |-> <<>>, static_models |-> <<>>, rounds |-> 0,
           leftAtLoad |-> {}]

\* the state when a chat request enters try_with_fallback: the registry as
\* lines 403-407 built it
InitWith(envs, stores, reqs, retries) ==
    /\ redis_client \in BOOLEAN
    /\ store \in (IF redis_client THEN stores ELSE {<<>>})
    /\ \E env \in envs : AVAILABLE_MODELS = load_static_models(env) \o store
    /\ request \in reqs
    /\ max_retries \in retries
    /\ pc = "refresh"
    /\ dynamic_models = <<>>
    /\ static_models = <<>>
    /\ available_model_names = <<>>
    /\ fuzzy_match = None
    /\ suitable_models = <<>>
    /\ selected_model = NoModel
    /\ attempt = 0
    /\ events = <<>>
    /\ reads = <<>>
    /\ bg = BgIdle
    /\ storeOps = 0
    /\ PARAMETER_SCHEMA = NoSchema
    /\ handler = Serving("chat", NoModel)
    /\ result = NoResult
    /\ left = NoneLeft
    /\ leftAtLoad = {}
    /\ redis_up = redis_client
    /\ stream = <<>>
    /\ loads = <<>>
    /\ lock = "none"

(* Selection alone, for every request *)
InitSelect == InitWith(EnvChoices, Stores, Requests, {DefaultMaxRetries})

NextSelect ==
    \/ ReqRefreshLoad
    \/ ReqRefreshStatic
    \/ ReqRefreshLock
    \/ ReqRefreshSwap
    \/ SelNames
    \/ SelExact
    \/ SelFuzzy
    \/ SelPool
    \/ SelStrategy

SpecSelect == InitSelect /\ [][NextSelect]_vars

(* One try_with_fallback call with no other activity *)
FallbackRequests ==
    {Request(m, t, s) : m \in {None, s_gpt_4o_mini, s_fake_model},
                        t \in {"general", "summary"},
                        s \in {"balanced", "cost"}}

InitFallback == InitWith(EnvChoices, Stores, FallbackRequests, 0..MaxRetriesBound)

NextFallback ==
    \/ NextSelect
    \/ CallStart
    \/ CallSucceed
    \/ \E e \in ProviderErrors : CallFail(e)

SpecFallback == InitFallback /\ [][NextFallback]_vars

(* One chat request from the entry of chat_completions to its response *)
SchemaChoices ==
    { NoSchema,
      [NoSchema EXCEPT !.max_tokens = <<SchemaEntry("integer", <<1>>, <<200000>>, NoInt)>>],
      [NoSchema EXCEPT !.max_tokens = <<SchemaEntry("integer", NoInt, NoInt, <<1024>>)>>],
      [NoSchema EXCEPT !.task_type = <<SchemaEntry("string", NoInt, NoInt, <<"general">>)>>] }

MaxTokensChoices == {NoInt, <<0>>, <<1000>>, <<999999>>}

ChatRequests ==
    {[Request(m, task, "balanced") EXCEPT !.max_tokens = t, !.messages = msgs,
                                          !.stream = s] :
        m \in {None, s_model}, task \in {"summary", NoTaskType}, t \in MaxTokensChoices,
        msgs \in {<<>>, <<UserMessage>>}, s \in BOOLEAN}

ChatStores == {st \in Stores : Len(st) <= 1}

InitChat ==
    /\ redis_client \in BOOLEAN
    /\ store \in (IF redis_client THEN ChatStores ELSE {<<>>})
    /\ \E env \in {{}, {"OPENAI_API_KEY"}} : AVAILABLE_MODELS = load_static_models(env) \o store
    /\ request \in ChatRequests
    /\ PARAMETER_SCHEMA \in SchemaChoices
    /\ max_retries = DefaultMaxRetries
    /\ pc = "entry"
    /\ dynamic_models = <<>>
    /\ static_models = <<>>
    /\ available_model_names = <<>>
    /\ fuzzy_match = None
    /\ suitable_models = <<>>
    /\ selected_model = NoModel
    /\ attempt = 0
    /\ events = <<>>
    /\ reads = <<>>
    /\ bg = BgIdle
    /\ storeOps = 0
    /\ handler = Serving("chat", NoModel)
    /\ result = NoResult
    /\ left = NoneLeft
    /\ leftAtLoad = {}
    /\ redis_up = redis_client
    /\ stream = <<>>
    /\ loads = <<>>
    /\ lock = "none"

NextChat ==
    \/ ChatEntry
    \/ ChatValidate
    \/ NextSelect
    \/ CallStart
    \/ CallSucceed
    \/ \E e \in Errors : CallFail(e)
    \/ \E chunk \in Chunks : StreamChunk(chunk)
    \/ StreamEnd
    \/ \E e \in ProviderErrors : StreamError(e)

SpecChat == InitChat /\ [][NextChat]_vars

(* The request handler next to the refresh thread and a changing store *)
ConcPool == {d \in DynamicPool : d.model \in {s_mistral_nemo_12b, s_mistral_22b}}

ConcStores == {st \in Stores : Len(st) <= 1 /\ \A i \in 1..Len(st) : st[i] \in ConcPool}

ConcRequests ==
    {Request(m, "general", "balanced") : m \in {None, s_mistral_nemo_12b, s_remote_edl_nemo}}

Init ==
    InitWith({{"OPENAI_API_KEY"}}, ConcStores, ConcRequests, {DefaultMaxRetries})

Next ==
    \/ NextFallback
    \/ BgLoad
    \/ BgStatic
    \/ BgLock
    \/ BgSwap
    \/ \E d \in ConcPool : StoreSetex(d)
    \/ \E name \in {d.model : d \in ConcPool} : StoreDelete(name)

Spec == Init /\ [][Next]_vars

(* One add or remove request next to the refresh thread and key expiry *)
\* a registration under the id of a static descriptor
DynamicGpt == Descriptor(s_gpt_4o_mini, "openai", "", 999, 0, {"general"}, 2048, TRUE)

AdminPool == ConcPool \cup {DynamicGpt}

\* a store entry written by another program: a descriptor whose JSON has no
\* "dynamic" key, which m.get('dynamic', False) reads as False
Unflagged == Descriptor(s_my_model, "custom", "", 3, 0, {"search"}, 2048, FALSE)

AdminStores == ConcStores \cup {<<Unflagged>>}

\* a model listed by a remote Ollama server (lines 1384-1395)
Discovered == Descriptor(s_qwen25, "ollama", "", 999, 0, {"general"}, 32768, FALSE)

AdminHandlers ==
    {Serving("add", d) : d \in AdminPool}
    \cup {Serving("remove", [NoModel EXCEPT !.model = d.model]) : d \in AdminPool}
    \cup {Serving("discover", Discovered)}
    \cup {Serving("refresh", NoModel)}

ValidationResults ==
    {ModelValidationResult(TRUE, "")}
    \cup {ModelValidationResult(FALSE, e) : e \in ProviderErrors}

InitAdmin ==
    /\ redis_client \in BOOLEAN
    /\ store \in (IF redis_client THEN AdminStores ELSE {<<>>})
    /\ AVAILABLE_MODELS = load_static_models({"OPENAI_API_KEY"}) \o store
    /\ handler \in AdminHandlers
    /\ pc = handler.name \o "_entry"
    /\ request = Request(None, "general", "balanced")
    /\ PARAMETER_SCHEMA = NoSchema
    /\ max_retries = DefaultMaxRetries
    /\ dynamic_models = <<>>
    /\ static_models = <<>>
    /\ available_model_names = <<>>
    /\ fuzzy_match = None
    /\ suitable_models = <<>>
    /\ selected_model = NoModel
    /\ attempt = 0
    /\ events = <<>>
    /\ reads = <<>>
    /\ bg = BgIdle
    /\ storeOps = 0
    /\ result = NoResult
    /\ left = NoneLeft
    /\ leftAtLoad = {}
    /\ redis_up = redis_client
    /\ stream = <<>>
    /\ loads = <<>>
    /\ lock = "none"

NextAdmin ==
    \/ AddEntry
    \/ \E v \in ValidationResults : AddValidate(v)
    \/ AddSetex
    \/ RemoveEntry
    \/ RemoveDelete
    \/ \E listed \in BOOLEAN : DiscoverEntry(listed)
    \/ DiscoverSetex
    \/ RefreshEntry
    \/ StoreOutage
    \/ ReqRefreshLoad
    \/ ReqRefreshStatic
    \/ ReqRefreshLock
    \/ ReqRefreshSwap
    \/ BgLoad
    \/ BgStatic
    \/ BgLock
    \/ BgSwap
    \/ \E name \in {d.model : d \in AdminPool} : StoreDelete(name)

SpecAdmin == InitAdmin /\ [][NextAdmin]_vars

(* A chat request's refresh and selection over a store that other writers
   and add_dynamic_model have filled *)
\* a value that is not JSON text, under the key dynamic_model:qwen2.5
Malformed == [model |-> s_qwen25, raw |-> "{'model': 'qwen2.5'"]

\* the entry add_dynamic_model writes for a request body with "priority": null
\* (priority: Optional[int], line 494)
NullPriority == Descriptor(s_my_model, "custom", "", NullNumber, 0, {"general"}, 2048, TRUE)

LoadPool ==
    {Malformed, NullPriority} \cup {d \in DynamicPool : d.model = s_mistral_22b}

LoadStores == {st \in Arrangements(LoadPool, MaxDynamic) : DistinctIds(st)}

LoadRequests ==
    {Request(m, "general", s) : m \in {None, s_my_model},
                                s \in {"balanced", "cost", "local"}}

InitLoad ==
    /\ redis_client = TRUE
    /\ redis_up = TRUE
    /\ store \in LoadStores
    /\ \E env \in {{}, {"OPENAI_API_KEY"}} : AVAILABLE_MODELS = load_static_models(env)
    /\ request \in LoadRequests
    /\ max_retries = DefaultMaxRetries
    /\ pc = "refresh"
    /\ dynamic_models = <<>>
    /\ static_models = <<>>
    /\ available_model_names = <<>>
    /\ fuzzy_match = None
    /\ suitable_models = <<>>
    /\ selected_model = NoModel
    /\ attempt = 0
    /\ events = <<>>
    /\ reads = <<>>
    /\ bg = BgIdle
    /\ storeOps = 0
    /\ PARAMETER_SCHEMA = NoSchema
    /\ handler = Serving("chat", NoModel)
    /\ result = NoResult
    /\ left = NoneLeft
    /\ leftAtLoad = {}
    /\ stream = <<>>
    /\ loads = <<>>
    /\ lock = "none"

NextLoad == NextSelect

SpecLoad == InitLoad /\ [][NextLoad]_vars

(* find_best_model_match on its own *)
MatchAlphabet == {"b", "B", ":", "_"}

Strs(n) == UNION {[1..k -> MatchAlphabet] : k \in 1..n}

MatchRequested ==
    { s_gpt_4o_mini, s_mistral_10b, s_mistral_nemo_10b, s_mistral_22B,
      s_MISTRAL_NEMO_12B, s_qwen, s_qwe, s_fake_model, s_remote_abc123_gpt,
      s_remote_edl_nemo, s_remote_id1_my_model, s_remote_ab_model, s_remote_only,
      s_remote_dash_nemo, s_remote_colon_gpt, s_anthropic_claude, s_mistral_sp_22b }
    \cup {prefix \o body : prefix \in {<<>>, s_remote_us}, body \in Strs(MaxLen)}

MatchCandidates ==
    { s_gpt_4o_mini, s_mistral_nemo_12b, s_mistral_22b, s_model, s_qwen25,
      <<"b">>, <<"b", ":", "b">> }

RECURSIVE Lists(_, _)
\* the lists of at most n members of S
Lists(S, n) ==
    IF n = 0 THEN {<<>>}
    ELSE LET shorter == Lists(S, n - 1) IN
         shorter \cup {Append(a, x) : a \in {b \in shorter : Len(b) = n - 1}, x \in S}

InitMatch ==
    /\ request \in {Request(m, "general", "balanced") : m \in MatchRequested}
    /\ available_model_names \in Lists(MatchCandidates, MaxCand)
    /\ pc = "match"
    /\ redis_client = FALSE
    /\ store = <<>>
    /\ AVAILABLE_MODELS = <<>>
    /\ max_retries = DefaultMaxRetries
    /\ dynamic_models = <<>>
    /\ static_models = <<>>
    /\ fuzzy_match = None
    /\ suitable_models = <<>>
    /\ selected_model = NoModel
    /\ attempt = 0
    /\ events = <<>>
    /\ reads = <<>>
    /\ bg = BgIdle
    /\ storeOps = 0
    /\ PARAMETER_SCHEMA = NoSchema
    /\ handler = Serving("chat", NoModel)
    /\ result = NoResult
    /\ left = NoneLeft
    /\ leftAtLoad = {}
    /\ redis_up = redis_client
    /\ stream = <<>>
    /\ loads = <<>>
    /\ lock = "none"

NextMatch == Match

SpecMatch == InitMatch /\ [][NextMatch]_vars

----------------------------------------------------------------------------
(* Properties *)

\* every descriptor of the registry is eligible for the request's task type
AllEligible == \A i \in 1..Len(AVAILABLE_MODELS) :
                   SuitsTask(AVAILABLE_MODELS[i], request.task_type)

\* C1: within one try_with_fallback call no descriptor is attempted twice, and
\* with N eligible descriptors that all fail and max_retries = N-1 the call
\* has made N attempts when it raises the all-providers-failed error.
C1_DistinctAttempts ==
    /\ \A i, j \in 1..Len(events) :
           i # j => events[i].descriptorId # events[j].descriptorId
    /\ ( /\ pc = "raised"
         /\ AllEligible
         /\ DistinctIds(AVAILABLE_MODELS)
         /\ Len(AVAILABLE_MODELS) = max_retries + 1 )
       => Len(events) = max_retries + 1

\* C2: all the registry lists one select_optimal_model call reads (for the id
\* list, the exact lookup, the fuzzy lookup and the task pool) are the same
\* list, also while refresh_models_from_redis runs on the background thread.
C2_OneGeneration ==
    \A i, j \in 1..Len(reads) : reads[i] = reads[j]

\* C3: one try_with_fallback call makes at most max_retries + 1 provider calls,
\* numbered in order, and every call but the latest has ended in failure, so
\* a call starts only after the one before it failed.
C3_BoundedSequentialAttempts ==
    /\ Len(events) <= max_retries + 1
    /\ \A i \in 1..Len(events) : events[i].attemptNumber = i
    /\ \A i \in 1..(Len(events) - 1) : events[i].outcome = "failure"

\* three calls were made under the default max_retries and the call has raised
C3_Witness ==
    /\ pc = "raised"
    /\ max_retries = DefaultMaxRetries
    /\ Len(events) = 3
    /\ \A i \in 1..3 : events[i].outcome = "failure"

\* C4: when the registry list holds a descriptor whose id equals the requested
\* id, select_optimal_model returns a descriptor with that id, for every task
\* type and strategy and whatever the other entries are.
C4_ExactMatchPrecedence ==
    ( /\ pc = "attempt"
      /\ Truthy(request.model)
      /\ \E i \in 1..Len(AVAILABLE_MODELS) : AVAILABLE_MODELS[i].model = request.model )
    => selected_model.model = request.model

\* an exact match is returned although another entry has a near name and the
\* cost strategy would have chosen differently
C4_Witness ==
    /\ pc = "attempt"
    /\ request.model = s_mistral_nemo_12b
    /\ request.strategy = "cost"
    /\ request.task_type = "vision"
    /\ selected_model.model = s_mistral_nemo_12b
    /\ \E i \in 1..Len(AVAILABLE_MODELS) : AVAILABLE_MODELS[i].model = s_mistral_22b
    /\ AVAILABLE_MODELS[1].model # s_mistral_nemo_12b

\* base name and variant tag of an id as written: the part before and the
\* part after the first colon, a leading "<provider>/" removed
IdParts(id) ==
    LET name == IF IndexOf(id, "/") # 0 THEN split(id, "/", 1)[2] ELSE id IN
    IF IndexOf(name, ":") # 0
    THEN LET p == split(name, ":", 1) IN <<p[1], p[2]>>
    ELSE <<name, <<>>>>

\* base name and variant tag as calculate_model_similarity compares them
ComparedParts(id) == extract_model_parts(lower(id))

\* equal base names, two non-empty variant tags, and the tags differ
VariantConflict(a, b) ==
    a[1] = b[1] /\ a[2] # <<>> /\ b[2] # <<>> /\ a[2] # b[2]

\* C5 as stated: find_best_model_match never returns a candidate with the
\* base name of the requested id and a different non-empty variant tag, the
\* names and tags taken as written.
C5_VariantStrictnessAsWritten ==
    (pc = "matched" /\ fuzzy_match # None)
    => ~VariantConflict(IdParts(CleanRequested(request.model)), IdParts(fuzzy_match))

\* C5 amended: find_best_model_match never returns a candidate with the base
\* name of the requested id and a different non-empty variant tag, the names
\* and tags compared in lower case with surrounding blanks removed.
C5_VariantStrictness ==
    (pc = "matched" /\ fuzzy_match # None)
    => /\ ~VariantConflict(ComparedParts(CleanRequested(request.model)),
                           ComparedParts(fuzzy_match))
       /\ ~VariantConflict(ComparedParts(request.model), ComparedParts(fuzzy_match))

\* mistral-nemo:10b is not resolved although mistral-nemo:12b is a candidate
C5_Witness ==
    /\ pc = "matched"
    /\ request.model = s_mistral_nemo_10b
    /\ InList(s_mistral_nemo_12b, available_model_names)
    /\ fuzzy_match = None

Digits == {"0", "1", "2", "3", "4", "5", "6", "7", "8", "9"}
Alnum == {Upper[i] : i \in 1..26} \cup {Lower[i] : i \in 1..26} \cup Digits

\* the id has the shape remote_<token>_<rest>, the token of at least three
\* characters taken from chars
RoutingShape(id, chars) ==
    /\ startswith(id, s_remote_us)
    /\ LET parts == split(id, "_", 2) IN
       /\ Len(parts) = 3
       /\ Len(parts[2]) >= 3
       /\ \A i \in 1..Len(parts[2]) : parts[2][i] \in chars

RoutingRest(id) == split(id, "_", 2)[3]

\* C6: a requested id remote_<token>_<rest> with an alphanumeric token of at
\* least three characters and <rest> equal to a registry id is resolved by
\* select_optimal_model to the descriptor with id <rest>, through the fuzzy
\* matcher with score 1.0, for every task type and strategy.
C6_RemotePrefixResolves ==
    ( /\ pc = "attempt"
      /\ Truthy(request.model)
      /\ RoutingShape(request.model, Alnum)
      /\ \E i \in 1..Len(AVAILABLE_MODELS) :
             AVAILABLE_MODELS[i].model = RoutingRest(request.model) )
    => /\ selected_model.model = RoutingRest(request.model)
       /\ fuzzy_match = RoutingRest(request.model)
       /\ REq(calculate_model_similarity(fuzzy_match, selected_model.model), <<1, 1>>)

\* remote_id1_my_model is resolved to my_model under the cost strategy
C6_Witness ==
    /\ pc = "attempt"
    /\ request.model = s_remote_id1_my_model
    /\ request.strategy = "cost"
    /\ request.task_type = "general"
    /\ selected_model.model = s_my_model
    /\ fuzzy_match = s_my_model

\* C7: a requested id that starts with remote_ without the routing-prefix
\* shape (fewer than three segments, or a token shorter than three characters)
\* is left as it is by the prefix removal, so a candidate is returned only
\* when it equals the unchanged id or scores at least 0.70 against it.
C7_MalformedPrefixUnchanged ==
    ( /\ pc = "matched"
      /\ startswith(request.model, s_remote_us)
      /\ ~RoutingShape(request.model, Alnum \cup {"-"})
      /\ fuzzy_match # None )
    => \/ fuzzy_match = request.model
       \/ RGe(calculate_model_similarity(request.model, fuzzy_match), <<7, 10>>)

\* C8: find_best_model_match returns a candidate exactly when some candidate
\* scores at least 0.70 against the cleaned requested id, and the candidate
\* returned has the highest score of all.
C8_ThresholdBoundary ==
    (pc = "matched" /\ Truthy(request.model))
    => LET clean == CleanRequested(request.model)
           Score(c) == calculate_model_similarity(clean, c)
           n == Len(available_model_names)
       IN  /\ fuzzy_match # None
              <=> \E i \in 1..n : RGe(Score(available_model_names[i]), <<7, 10>>)
           /\ fuzzy_match # None =>
                  /\ InList(fuzzy_match, available_model_names)
                  /\ \A i \in 1..n :
                         RGe(Score(fuzzy_match), Score(available_model_names[i]))

\* qwen against qwen2.5 scores (4/7)*0.7 + 0.3 = 0.70 and is accepted
C8_Witness ==
    /\ pc = "matched"
    /\ request.model = s_qwen
    /\ available_model_names = <<s_qwen25>>
    /\ REq(calculate_model_similarity(s_qwen, s_qwen25), <<7, 10>>)
    /\ fuzzy_match = s_qwen25

\* positions of the auto-selection pool in the registry list: the entries
\* whose task_types contain the task type, or all entries when there is none
PoolPositions ==
    LET eligible == {i \in 1..Len(AVAILABLE_MODELS) :
                        request.task_type \in AVAILABLE_MODELS[i].task_types}
    IN  IF eligible = {} THEN 1..Len(AVAILABLE_MODELS) ELSE eligible

\* the selection went through auto-selection
AutoSelected == pc = "attempt" /\ suitable_models # <<>>

\* C9 as stated: under strategy cost auto-selection returns a descriptor of
\* minimum cost of the pool and, of those tied at that cost, one of lowest
\* priority.
C9_CostTiesByPriority ==
    (AutoSelected /\ request.strategy = "cost")
    => \E i \in PoolPositions :
           /\ selected_model = AVAILABLE_MODELS[i]
           /\ \A j \in PoolPositions :
                  /\ CostKey(AVAILABLE_MODELS[i]) <= CostKey(AVAILABLE_MODELS[j])
                  /\ CostKey(AVAILABLE_MODELS[j]) = CostKey(AVAILABLE_MODELS[i])
                     => PriorityKey(AVAILABLE_MODELS[i]) <= PriorityKey(AVAILABLE_MODELS[j])

\* C9 amended: under strategy cost auto-selection returns a descriptor of
\* minimum cost of the pool and, of those tied at that cost, the one that
\* comes first in the registry list.
C9_CostTiesByListOrder ==
    (AutoSelected /\ request.strategy = "cost")
    => \E i \in PoolPositions :
           /\ selected_model = AVAILABLE_MODELS[i]
           /\ \A j \in PoolPositions :
                  /\ CostKey(AVAILABLE_MODELS[i]) <= CostKey(AVAILABLE_MODELS[j])
                  /\ j < i => CostKey(AVAILABLE_MODELS[j]) > CostKey(AVAILABLE_MODELS[i])

\* llama3.1:8b (priority 5) is returned although mistral:22b (priority 2) has
\* the same cost and comes later in the list
C9_Witness ==
    /\ AutoSelected
    /\ request.strategy = "cost"
    /\ request.task_type = "general"
    /\ selected_model.model = s_llama31_8b
    /\ \E j \in PoolPositions :
           /\ AVAILABLE_MODELS[j].model = s_mistral_22b
           /\ CostKey(AVAILABLE_MODELS[j]) = CostKey(selected_model)
           /\ PriorityKey(AVAILABLE_MODELS[j]) < PriorityKey(selected_model)

\* C10: with no requested model, the strategies balanced, performance and any
\* unrecognized strategy return a descriptor of minimum priority of the pool.
C10_PriorityStrategies ==
    ( /\ pc = "attempt"
      /\ ~Truthy(request.model)
      /\ request.strategy \notin {"cost", "local"} )
    => \E i \in PoolPositions :
           /\ selected_model = AVAILABLE_MODELS[i]
           /\ \A j \in PoolPositions :
                  PriorityKey(AVAILABLE_MODELS[i]) <= PriorityKey(AVAILABLE_MODELS[j])

\* an unrecognized strategy and a task type no descriptor lists: the minimum
\* priority of the whole list is returned, from a later position than a
\* cheaper entry
C10_Witness ==
    /\ pc = "attempt"
    /\ request.model = None
    /\ request.strategy = "fastest"
    /\ request.task_type = "vision"
    /\ Len(AVAILABLE_MODELS) >= 3
    /\ selected_model.model = s_mistral_22b
    /\ AVAILABLE_MODELS[1].model = s_llama31_8b

\* the pool of the auto-selection holds no ollama descriptor
NoOllamaInPool == \A j \in PoolPositions : ~IsOllama(AVAILABLE_MODELS[j])

\* C11 as stated: under strategy local auto-selection returns the first
\* ollama descriptor of the pool in list order, and with no ollama descriptor
\* in the pool the descriptor of minimum priority that balanced returns.
C11_LocalElseBalanced ==
    (AutoSelected /\ request.strategy = "local")
    => \E i \in PoolPositions :
           /\ selected_model = AVAILABLE_MODELS[i]
           /\ IF NoOllamaInPool
              THEN selected_model = PriorityChoice(TaskPool(AVAILABLE_MODELS, request.task_type))
              ELSE /\ IsOllama(AVAILABLE_MODELS[i])
                   /\ \A j \in PoolPositions : j < i => ~IsOllama(AVAILABLE_MODELS[j])

\* C11 amended: under strategy local auto-selection returns the first ollama
\* descriptor of the pool in list order, and with no ollama descriptor in the
\* pool the first descriptor of the pool in list order.
C11_LocalElseFirst ==
    (AutoSelected /\ request.strategy = "local")
    => \E i \in PoolPositions :
           /\ selected_model = AVAILABLE_MODELS[i]
           /\ IF NoOllamaInPool
              THEN \A j \in PoolPositions : i <= j
              ELSE /\ IsOllama(AVAILABLE_MODELS[i])
                   /\ \A j \in PoolPositions : j < i => ~IsOllama(AVAILABLE_MODELS[j])

\* a pool without ollama: my_model (priority 3) is returned because it is
\* first, although model (priority 1) comes after it
C11_Witness ==
    /\ AutoSelected
    /\ request.strategy = "local"
    /\ request.task_type = "search"
    /\ NoOllamaInPool
    /\ selected_model.model = s_my_model
    /\ \E j \in PoolPositions :
           PriorityKey(AVAILABLE_MODELS[j]) < PriorityKey(selected_model)

LastEvent == events[Len(events)]

\* C13: call_litellm sends max_tokens = min(r, descriptor.max_tokens), r being
\* the request's max_tokens when the request gives one and 4096 otherwise, so
\* the value sent never exceeds the descriptor's max_tokens.
C13_MaxTokensClamp ==
    pc = "awaiting"
    => LET r == IF request.max_tokens # NoInt THEN request.max_tokens[1] ELSE 4096 IN
       /\ LastEvent.max_tokens = Min(r, selected_model.max_tokens)
       /\ LastEvent.max_tokens <= selected_model.max_tokens

Invalid ==
    validate_parameters(apply_parameter_defaults(request, PARAMETER_SCHEMA),
                        PARAMETER_SCHEMA) # <<>>

\* C15: for a request that fails parameter validation chat_completions runs no
\* model selection and makes no provider call, and what it returns is the
\* validation error with status 400.
C15_ValidationStops ==
    Invalid
    => /\ events = <<>>
       /\ reads = <<>>
       /\ selected_model = NoModel
       /\ pc \in {"entry", "validate", "http_error"}
       /\ (pc = "http_error" /\ AVAILABLE_MODELS # <<>>)
          => /\ result.status = 400
             /\ result.detail[1] = "Parameter validation failed: "

\* max_tokens 999999 against a schema with maximum 200000 is answered with 400
C15_Witness ==
    /\ pc = "http_error"
    /\ request.max_tokens = <<999999>>
    /\ PARAMETER_SCHEMA.max_tokens # <<>>
    /\ result.status = 400
    /\ events = <<>>

\* C16: a chat request with an empty messages list is rejected before any
\* provider call: no call is made for it.
C16_EmptyMessagesRejected ==
    request.messages = <<>> => events = <<>>

\* the list holds a dynamic descriptor with this id
HasDynamic(list, id) == \E i \in 1..Len(list) : list[i].model = id /\ IsDynamic(list[i])

\* C18: add_dynamic_model writes to the store only when the live test call
\* has succeeded; when the test call fails, the step that ends the request
\* leaves the store and the registry list as they are and returns an error
\* that carries the reason of the failure.
C18_PersistAfterValidation ==
    [][ /\ (handler.name = "add" /\ \E i \in 1..Len(store') : ~InList(store'[i], store))
           => (pc = "add_setex" /\ handler.validation.available)
        /\ (handler.name = "add" /\ pc' \in {"add_setex", "refresh", "admin_done"})
           => handler'.validation.available
        /\ (pc = "add_validating" /\ pc' = "http_error")
           => /\ ~handler'.validation.available
              /\ store' = store
              /\ AVAILABLE_MODELS' = AVAILABLE_MODELS
              /\ result' = HTTPException(400, <<"Model validation failed: ",
                                                handler'.validation.error>>) ]_vars

\* the test call for a registration failed: the caller has the error and the
\* id is neither in the store nor in the registry
C18_Witness ==
    /\ handler.name = "add"
    /\ pc = "http_error"
    /\ result.status = 400
    /\ result.detail[2] \in ProviderErrors
    /\ ~HasModel(store, handler.config.model)
    /\ ~HasDynamic(AVAILABLE_MODELS, handler.config.model)

\* a step in which a refresh_models_from_redis installs its list
HandlerSwaps == pc = "refresh_swap" /\ pc' # "refresh_swap"
BackgroundSwaps == bg.pc = "swap" /\ bg'.pc # "swap"

\* C19 as stated: once a dynamic descriptor's key has left the store, the
\* list installed by the next refresh to complete does not hold the descriptor.
C19_NextRefreshDrops ==
    [][ (HandlerSwaps \/ BackgroundSwaps)
        => \A id \in left.pending : ~HasDynamic(AVAILABLE_MODELS', id) ]_vars

\* C19 amended: the list installed by a refresh that read the store after the
\* key had left does not hold the descriptor.
C19_RefreshAfterLeaveDrops ==
    [][ /\ HandlerSwaps => \A id \in leftAtLoad : ~HasDynamic(AVAILABLE_MODELS', id)
        /\ BackgroundSwaps => \A id \in bg.leftAtLoad : ~HasDynamic(AVAILABLE_MODELS', id) ]_vars

\* remove_dynamic_model has deleted the key of a descriptor that was in the
\* registry, and its refresh has installed a list without it
C19_Witness ==
    /\ handler.name = "remove"
    /\ pc = "admin_done"
    /\ handler.config.model \in leftAtLoad
    /\ ~HasModel(store, handler.config.model)
    /\ ~HasDynamic(AVAILABLE_MODELS, handler.config.model)
    /\ Len(AVAILABLE_MODELS) = Len(static_models)

\* C20: no two descriptors of the registry list have the same model id.
C20_UniqueIds == DistinctIds(AVAILABLE_MODELS)

\* the last store read made by the thread
LastLoad(by) == loads[LastLoadIndex(loads, by)]

\* a step in which an add, remove or discover request gets its response
HandlerEnds ==
    /\ handler.name \in {"add", "remove", "discover"}
    /\ pc \notin {"http_error", "admin_done"}
    /\ pc' \in {"http_error", "admin_done"}

\* a refresh whose store read got no answer installs the static descriptors
\* of the registry and nothing else, and does not fail the request
UnreachableRefreshKeepsStatic ==
    [][ /\ (HandlerSwaps /\ ~LastLoad("request").up)
           => /\ AVAILABLE_MODELS' = SelectSeq(AVAILABLE_MODELS, IsStatic)
              /\ AVAILABLE_MODELS' # <<>>
              /\ result'.status \in {0, 200}
        /\ (BackgroundSwaps /\ ~LastLoad("background").up)
           => /\ AVAILABLE_MODELS' = bg.static_models
              /\ \A i \in 1..Len(AVAILABLE_MODELS') : IsStatic(AVAILABLE_MODELS'[i])
              /\ AVAILABLE_MODELS' # <<>> ]_vars

\* C21: while the store is unreachable a refresh installs the static
\* descriptors and fails no request, and an add, remove or discover request
\* that ends is answered 503 (or 400 when the request itself was rejected
\* before the store was needed).
C21_StoreUnreachable ==
    [][ /\ (HandlerSwaps /\ ~LastLoad("request").up)
           => /\ AVAILABLE_MODELS' = SelectSeq(AVAILABLE_MODELS, IsStatic)
              /\ result'.status \in {0, 200}
        /\ (HandlerEnds /\ ~redis_up)
           => result'.status \in {503, 400} ]_vars

\* the events of a stream that forwards the chunks in order
Forwarded(chunks) == [i \in 1..Len(chunks) |-> DataEvent(JsonDumps(chunks[i]))]

\* C22: the events yielded are the provider's chunks in order; a stream that
\* is closed has the sentinel as its last event and nowhere else, and a
\* stream that is open has no sentinel.
C22_StreamEndsWithSentinel ==
    /\ pc = "streaming" => stream = Forwarded(LastEvent.chunks)
    /\ pc = "stream_closed"
       => stream = Append(Forwarded(LastEvent.chunks), DoneEvent)

\* a provider stream that ends without raising is forwarded in order and
\* closed by the sentinel
CleanStreamEndsWithSentinel ==
    /\ pc = "streaming" => stream = Forwarded(LastEvent.chunks)
    /\ (pc = "stream_closed" /\ LastEvent.outcome = "success")
       => stream = Append(Forwarded(LastEvent.chunks), DoneEvent)

\* C23: for a request that gives no task type the pool of the selection is
\* the pool of task type "general", and after a failed attempt every
\* descriptor that remains for "general" is a candidate, so the call gives up
\* early only when none remains.
C23_DefaultTaskGeneral ==
    request.task_type = NoTaskType
    => /\ pc = "strategy"
          => suitable_models = TaskPool(AVAILABLE_MODELS, "general")
       /\ (pc = "raised" /\ attempt < max_retries)
          => RemainingModels(AVAILABLE_MODELS, selected_model, "general") = <<>>

\* the ids of the descriptors the call has attempted
TriedIds == {events[i].descriptorId : i \in 1..Len(events)}

\* the descriptors of the registry that are eligible for the request's task
\* type and have not been attempted
Untried ==
    LET Fresh(m) == m.model \notin TriedIds /\ SuitsTask(m, request.task_type)
    IN  SelectSeq(AVAILABLE_MODELS, Fresh)

\* a step in which a provider call of try_with_fallback fails
AttemptFails == pc = "awaiting" /\ pc' \in {"attempt", "raised", "returned_none"}

\* C24: when an attempt fails and no untried eligible descriptor remains the
\* call raises the all-providers-failed error at once, whatever is left of the
\* retry budget; when one remains and the budget allows, the next attempt
\* uses the untried eligible descriptor of least priority.
C24_FallbackToUntried ==
    [][ AttemptFails
        => IF Untried = <<>>
           THEN pc' = "raised" /\ \E e \in Errors : result' = AllProvidersFailed(e)
           ELSE RetryAllowed(attempt, max_retries)
                => /\ pc' = "attempt"
                   /\ selected_model' = MinBy(Untried, PriorityKey) ]_vars

\* the descriptors of a list that come from the static configuration
FromConfig(list) ==
    LET Configured(m) == InList(m, MODEL_CONFIGS) IN SelectSeq(list, Configured)

\* a step in which the refresh of the thread installs its list
Swaps(by) == IF by = "request" THEN HandlerSwaps ELSE BackgroundSwaps

\* C25: the descriptors of the static configuration are the same in every
\* registry list, and the list a refresh installs is those descriptors
\* followed by the entries the refresh loaded from the store.
C25_StaticPreserved ==
    [][ /\ FromConfig(AVAILABLE_MODELS') = FromConfig(AVAILABLE_MODELS)
        /\ \A by \in {"request", "background"} :
              Swaps(by)
              => AVAILABLE_MODELS' = FromConfig(AVAILABLE_MODELS) \o LastLoad(by).list ]_vars

\* the first half of C25 alone: no step changes the descriptors of the static
\* configuration in the registry
StaticConfigKept ==
    [][FromConfig(AVAILABLE_MODELS') = FromConfig(AVAILABLE_MODELS)]_vars

\* the refresh of the thread and the refresh before it ran one after the
\* other, with no other refresh in between or under way, and read the same
\* store content
RanTwiceInARow(by) ==
    LET k == Len(loads) IN
    /\ k >= 2
    /\ LastLoadIndex(loads, by) = k
    /\ loads[k].fresh
    /\ loads[k - 1].fresh
    /\ loads[k].up /\ loads[k - 1].up
    /\ loads[k].list = loads[k - 1].list

\* C30: when a refresh runs right after another one and has read the same
\* store content, the list it installs is the list that was installed.
C30_RefreshIdempotent ==
    [][ \A by \in {"request", "background"} :
            (Swaps(by) /\ RanTwiceInARow(by))
            => AVAILABLE_MODELS' = AVAILABLE_MODELS ]_vars

\* C30 for a store whose entries all carry the dynamic mark
FlaggedRefreshIdempotent ==
    [][ \A by \in {"request", "background"} :
            ( /\ Swaps(by)
              /\ RanTwiceInARow(by)
              /\ \A i \in 1..Len(LastLoad(by).list) : IsDynamic(LastLoad(by).list[i]) )
            => AVAILABLE_MODELS' = AVAILABLE_MODELS ]_vars

\* C29: once every refresh that has read the store has installed its list,
\* the registry holds the entries of the latest store read: the static
\* descriptors followed by the list that read returned.
C29_LaterReadWins ==
    (loads # <<>> /\ AllInstalled(loads))
    => AVAILABLE_MODELS = FromConfig(AVAILABLE_MODELS) \o loads[Len(loads)].list

\* the same for refreshes that do not overlap: each read the store when every
\* earlier refresh had installed its list
SequentialReadWins ==
    (loads # <<>> /\ AllInstalled(loads) /\ \A i \in 1..Len(loads) : loads[i].fresh)
    => AVAILABLE_MODELS = FromConfig(AVAILABLE_MODELS) \o loads[Len(loads)].list

\* the literals "remote-" and "remote:"
RemoteDash == <<"r", "e", "m", "o", "t", "e", "-">>
RemoteColon == <<"r", "e", "m", "o", "t", "e", ":">>

\* C28: a requested id made of the literal "remote-" or "remote:" and an id
\* of the candidate list resolves to that id.
C28_RemoteLiteralStripped ==
    pc = "matched"
    => \A i \in 1..Len(available_model_names) :
          request.model \in {RemoteDash \o available_model_names[i],
                             RemoteColon \o available_model_names[i]}
          => fuzzy_match = available_model_names[i]

\* what selection reads of a descriptor: an id, a provider, a priority, a cost
\* and max_tokens
Usable(m) ==
    /\ {"model", "provider", "priority", "cost_per_1k_tokens", "max_tokens"} \subseteq DOMAIN m
    /\ m.priority # NullNumber
    /\ m.cost_per_1k_tokens # NullNumber
    /\ m.max_tokens # NullNumber

\* the list load_dynamic_models has returned to the request's refresh is the
\* store without the entries that are not JSON, in the order of the store
MalformedSkipped ==
    pc \in {"refresh_static", "refresh_swap"}
    => /\ \A i \in 1..Len(dynamic_models) : Deserializes(dynamic_models[i])
       /\ \A i \in 1..Len(store) :
             Deserializes(store[i]) => InList(store[i], dynamic_models)
       /\ Len(dynamic_models) <= Len(store)

\* C27: load_dynamic_models skips the entries that are not JSON and returns
\* all the others, and every descriptor of the registry can be used by
\* selection, which therefore does not raise.
C27_LoadedUsable ==
    /\ MalformedSkipped
    /\ \A i \in 1..Len(AVAILABLE_MODELS) : Usable(AVAILABLE_MODELS[i])
    /\ pc # "select_raised"

----------------------------------------------------------------------------
\* the handler is waiting for litellm.acompletion (lines 553, 835-837)
ProviderPoints == {"awaiting", "streaming", "add_validating"}

\* the handler's next statement is a call of redis_client (lines 524-529,
\* 1151, 1205, 1212, 1331)
StorePoints == {"refresh", "add_setex", "remove_entry", "remove_delete", "discover_setex"}

\* a step of the request handler in which an outbound call starts, runs or ends
HandlerCalls ==
    \/ pc \in ProviderPoints
    \/ pc' \in ProviderPoints
    \/ pc \in StorePoints /\ redis_client /\ pc' # pc

\* the step of the refresh thread that reads the store (line 587 in its thread)
BackgroundCalls == bg.pc = "sleep" /\ bg'.pc = "static"

\* C26: model_registry_lock is not held by a thread while that thread makes a
\* provider call (litellm.acompletion) or a call of the dynamic store (keys, get,
\* setex, exists, delete): neither before nor after any step in which such a
\* call starts, runs or ends does the calling thread hold the lock. The only
\* statements executed with the lock held read AVAILABLE_MODELS or assign it.
C26_NoLockAcrossCalls ==
    [][/\ HandlerCalls => lock # "request" /\ lock' # "request"
       /\ BackgroundCalls => lock # "background" /\ lock' # "background"]_vars

\* the handler holds the lock for its swap, after its read of the store and
\* while the refresh thread waits for the lock with a list it has read
C26_Witness ==
    /\ lock = "request"
    /\ pc = "refresh_swap"
    /\ bg.pc = "swap"
    /\ \E i \in 1..Len(loads) : loads[i].by = "request" /\ ~loads[i].done

====
